---------------------------- MODULE Spec2Model ----------------------------
(***************************************************************************)
(* nexus-haul (src/main.go): a four-stage pipeline of goroutine pools      *)
(* (downloader, unmarshaler, processor, streamer) over four buffered       *)
(* channels and one unbuffered error channel drained by main.              *)
(*                                                                         *)
(* Go strings are modelled as sequences of one-character strings, so that  *)
(* slicing (Path[1:]), strings.Replace and strings.HasSuffix are computed  *)
(* as the code computes them.                                              *)
(***************************************************************************)
EXTENDS Naturals, Sequences, FiniteSets

(***************************************************************************)
(* Bounds of the model.                                                    *)
(***************************************************************************)
\* largest value of the Workers field of the configuration file
MaxWorkers == 2
\* capacity of the four work channels (make(chan T, 100) in main, scaled)
QueueCap == 2
\* largest number of failing HTTP exchanges / malformed bodies in one run
MaxFaults == 2
\* largest number of children of a listing drawn from Kids
MaxKids == 2

(***************************************************************************)
(* Go strings.                                                             *)
(***************************************************************************)
EmptyStr == << >>

\* s[1:] ; the caller checks SlicePanics first (slice bounds out of range)
SliceFrom1(s) == SubSeq(s, 2, Len(s))

SlicePanics(s) == Len(s) < 1

\* strings.HasSuffix(s, suffix)
HasSuffix(s, suffix) ==
    /\ Len(s) >= Len(suffix)
    /\ SubSeq(s, Len(s) - Len(suffix) + 1, Len(s)) = suffix

\* strings.Index(s, old) + 1, or 0 when old does not occur in s
IndexOf(s, old) ==
    LET hits == { i \in 1..Len(s) :
                    /\ i + Len(old) - 1 <= Len(s)
                    /\ SubSeq(s, i, i + Len(old) - 1) = old }
    IN  IF hits = {} THEN 0
        ELSE CHOOSE i \in hits : \A j \in hits : i <= j

\* strings.Replace(s, old, new, 1) for a non-empty old
ReplaceFirst(s, old, new) ==
    LET i == IndexOf(s, old)
    IN  IF i = 0 THEN s
        ELSE SubSeq(s, 1, i - 1) \o new \o SubSeq(s, i + Len(old), Len(s))

\* fmt.Sprintf("%s%s", a, b)
Sprintf2(a, b) == a \o b

STR_jar == <<"j", "a", "r">>
STR_pom == <<"p", "o", "m">>
STR_dotpom == <<".", "p", "o", "m">>
JavaArchive == "application/java-archive"
AppXml == "application/xml"


(***************************************************************************)
(* Asset (the decoded tree node) and the three tree queries.               *)
(***************************************************************************)
\* Asset literal with the fields the pipeline reads
Asset(type, leaf, path, pomUri, children) ==
    [Type |-> type, Leaf |-> leaf, Path |-> path, PomUri |-> pomUri,
     Children |-> children]

\* Asset{} : what json.Unmarshal leaves when the body has no "data" field
ZeroAsset == Asset("", FALSE, EmptyStr, EmptyStr, << >>)

\* result of a call that may panic (index out of range on Path[1:])
Returned(v) == [panic |-> FALSE, val |-> v]
Panicked == [panic |-> TRUE, val |-> << >>]

RECURSIVE hasArtifacts(_)
\* hasArtifacts looking at every child
hasArtifacts_AnyChild(asset) ==
    \E i \in 1..Len(asset.Children) :
        asset.Children[i].Leaf \/ hasArtifacts(asset.Children[i])

\* hasArtifacts ending in return true
hasArtifacts_EmptyIsTrue(asset) ==
    IF asset.Children = << >> THEN TRUE
    ELSE LET a == Head(asset.Children)
         IN  IF a.Leaf THEN TRUE ELSE hasArtifacts(a)

hasArtifacts(asset) ==
    IF asset.Children = << >> THEN FALSE
    ELSE LET a == Head(asset.Children)
         IN  IF a.Leaf THEN TRUE ELSE hasArtifacts(a)

\* the companion derived from a.Path instead of artifactURI
LeafArtifacts_PomFromPath(a) ==
    IF SlicePanics(a.Path) THEN Panicked
    ELSE LET artifactURI == SliceFrom1(a.Path)
         IN  IF Len(a.PomUri) > 0
             THEN Returned(<<artifactURI,
                             ReplaceFirst(a.Path, STR_jar, STR_pom)>>)
             ELSE Returned(<<artifactURI>>)

\* the paths getArtifacts appends for one leaf child
LeafArtifacts(a) ==
    IF SlicePanics(a.Path) THEN Panicked
    ELSE LET artifactURI == SliceFrom1(a.Path)
         IN  IF Len(a.PomUri) > 0
             THEN Returned(<<artifactURI,
                             ReplaceFirst(artifactURI, STR_jar, STR_pom)>>)
             ELSE Returned(<<artifactURI>>)

RECURSIVE getArtifacts(_)
RECURSIVE ArtifactsOfChildren(_)
\* the range loop of getArtifacts over asset.Children
ArtifactsOfChildren(children) ==
    IF children = << >> THEN Returned(<< >>)
    ELSE LET a == Head(children)
             first == IF a.Leaf THEN LeafArtifacts(a) ELSE getArtifacts(a)
             rest == ArtifactsOfChildren(Tail(children))
         IN  IF first.panic \/ rest.panic THEN Panicked
             ELSE Returned(first.val \o rest.val)

RECURSIVE DirectLeafArtifacts(_)
DirectLeafArtifacts(children) ==
    IF children = << >> THEN Returned(<< >>)
    ELSE LET a == Head(children)
             first == IF a.Leaf THEN LeafArtifacts(a) ELSE Returned(<< >>)
             rest == DirectLeafArtifacts(Tail(children))
         IN  IF first.panic \/ rest.panic THEN Panicked
             ELSE Returned(first.val \o rest.val)

\* getArtifacts without the recursive call of its else branch
getArtifacts_NoDescent(asset) == DirectLeafArtifacts(asset.Children)

getArtifacts(asset) == ArtifactsOfChildren(asset.Children)

RECURSIVE GroupsOfChildren(_)
\* the range loop of getGroups taking every child that is not a leaf
GroupsOfChildren_NonLeaf(children) ==
    IF children = << >> THEN Returned(<< >>)
    ELSE LET a == Head(children)
             rest == GroupsOfChildren(Tail(children))
         IN  IF ~a.Leaf
             THEN IF SlicePanics(a.Path) \/ rest.panic THEN Panicked
                  ELSE Returned(<<SliceFrom1(a.Path)>> \o rest.val)
             ELSE rest

\* the range loop of getGroups over asset.Children
GroupsOfChildren(children) ==
    IF children = << >> THEN Returned(<< >>)
    ELSE LET a == Head(children)
             rest == GroupsOfChildren(Tail(children))
         IN  IF a.Type = "G"
             THEN IF SlicePanics(a.Path) \/ rest.panic THEN Panicked
                  ELSE Returned(<<SliceFrom1(a.Path)>> \o rest.val)
             ELSE rest

getGroups(asset) == GroupsOfChildren(asset.Children)

(***************************************************************************)
(* Configuration (configFile, confInfo).                                   *)
(***************************************************************************)
ConfSourceURL == <<"S">>
ConfSourceDownloadURL == <<"D">>
ConfTargetURL == <<"T">>

\* configFile{} : the zero value ci.configFile keeps when loading fails
ZeroConfigFile ==
    [SourceURL |-> EmptyStr, TargetURL |-> EmptyStr,
     SourceDownloadURL |-> EmptyStr, Workers |-> 0]

\* the configFile a well-formed migrator-conf.json decodes to
ParsedConfigFile(n) ==
    [SourceURL |-> ConfSourceURL, TargetURL |-> ConfTargetURL,
     SourceDownloadURL |-> ConfSourceDownloadURL, Workers |-> n]

\* the content type decided by pom occurring anywhere in the path
AssetToStream_PomAnywhere(conf, artifact) ==
    [sourceURL |-> Sprintf2(conf.SourceDownloadURL, artifact),
     targetURL |-> Sprintf2(conf.TargetURL, artifact),
     contentType |-> IF IndexOf(artifact, STR_pom) # 0 THEN AppXml
                     ELSE JavaArchive]

\* both URLs built on the download base
AssetToStream_OneBase(conf, artifact) ==
    [sourceURL |-> Sprintf2(conf.SourceDownloadURL, artifact),
     targetURL |-> Sprintf2(conf.SourceDownloadURL, artifact),
     contentType |-> IF HasSuffix(artifact, STR_dotpom) THEN AppXml
                     ELSE JavaArchive]

\* AssetToStream built by processor for one artifact path
AssetToStream(conf, artifact) ==
    [sourceURL |-> Sprintf2(conf.SourceDownloadURL, artifact),
     targetURL |-> Sprintf2(conf.TargetURL, artifact),
     contentType |-> IF HasSuffix(artifact, STR_dotpom) THEN AppXml
                     ELSE JavaArchive]

(***************************************************************************)
(* The source repository served over the listing protocol.                 *)
(***************************************************************************)
Leaf(path, pomUri) == Asset("artifact", TRUE, path, pomUri, << >>)
Group(path, children) == Asset("G", FALSE, path, EmptyStr, children)

P_root == <<"/">>
P_r == <<"/", "r">>
P_r_l == <<"/", "r", "/", "l", ".", "j", "a", "r">>
P_a == <<"/", "a">>
P_a_x == <<"/", "a", "/", "x", ".", "j", "a", "r">>
P_a_y == <<"/", "a", "/", "y", ".", "j", "a", "r">>
P_b == <<"/", "b">>
P_b_z == <<"/", "b", "/", "z", ".", "j", "a", "r">>
P_m == <<"/", "m", ".", "j", "a", "r">>
SomePom == <<"u">>

\* root -> /r -> l.jar (with pom)
TreeScenario == Group(P_root, << Group(P_r, << Leaf(P_r_l, SomePom) >>) >>)

\* two sibling groups, one with two leaves
TreeTwoGroups ==
    Group(P_root, << Group(P_a, << Leaf(P_a_x, SomePom), Leaf(P_a_y, EmptyStr) >>),
                     Group(P_b, << Leaf(P_b_z, EmptyStr) >>) >>)

\* the first group is empty
TreeEmptyFirst ==
    Group(P_root, << Group(P_r, << >>),
                     Group(P_a, << Leaf(P_a_x, EmptyStr) >>) >>)

\* heterogeneous siblings: a leaf next to a group
TreeMixed ==
    Group(P_root, << Leaf(P_m, EmptyStr),
                     Group(P_a, << Leaf(P_a_x, EmptyStr) >>) >>)

\* a leaf child whose path is the empty string
TreeEmptyPath ==
    Group(P_root, << Group(P_r, << Leaf(EmptyStr, EmptyStr) >>),
                     Group(P_a, << Leaf(P_a_x, EmptyStr) >>) >>)

Trees == {TreeScenario, TreeTwoGroups, TreeEmptyFirst, TreeMixed, TreeEmptyPath}

\* the children a listing may carry: leaves with and without a companion,
\* with jar as the extension, with no jar, with jar in a directory name too,
\* a pom listed as a leaf, an empty path; groups and non-group folders,
\* empty, holding a leaf, holding a group
P_w == <<"/", "w", ".", "w", "a", "r">>
P_jar_b == <<"/", "j", "a", "r", "/", "b", ".", "j", "a", "r">>
P_p == <<"/", "p", ".", "p", "o", "m">>
LeafKids ==
    { Leaf(p, u) : p \in {P_a_x, P_w, P_jar_b, P_p, EmptyStr},
                   u \in {EmptyStr, SomePom} }
        \cup { Asset("G", TRUE, P_m, EmptyStr, << >>) }
GroupKids ==
    { Asset(t, FALSE, p, EmptyStr, cs) :
        t \in {"G", "A"}, p \in {P_a, EmptyStr},
        cs \in {<< >>, << Leaf(P_a_y, EmptyStr) >>, << Group(P_b, << >>) >>} }
Kids == LeafKids \cup GroupKids

RECURSIVE KidSeqs(_)
KidSeqs(n) ==
    IF n = 0 THEN { << >> }
    ELSE LET shorter == KidSeqs(n - 1)
         IN  shorter \cup { Append(cs, k) : cs \in shorter, k \in Kids }

\* the root listings with at most MaxKids children
Listings == { Group(P_root, cs) : cs \in KidSeqs(MaxKids) }

\* one more group than one worker unit and its three queues can hold: the
\* queues, plus the URL, the body and the node held by the three senders
Width == 3 * QueueCap + 3
GroupNames ==
    <<"c", "d", "e", "f", "g", "h", "i", "j", "k", "l", "m", "n", "o", "p",
      "q", "s", "t", "u">>
\* root -> Width groups, all empty but the last, which holds one leaf
WideKid(i) ==
    Group(<<"/", GroupNames[i]>>,
          IF i < Width THEN << >>
          ELSE << Leaf(<<"/", GroupNames[i], "/", "z", ".", "j", "a", "r">>,
                       EmptyStr) >>)
RECURSIVE WideKids(_)
WideKids(n) == IF n = 0 THEN << >> ELSE Append(WideKids(n - 1), WideKid(n))
TreeWide == Group(P_root, WideKids(Width))

RECURSIVE NodesOf(_)
NodesOf(n) ==
    {n} \cup UNION { NodesOf(n.Children[i]) : i \in 1..Len(n.Children) }

\* the children of every node are all groups or all leaves
Homogeneous(t) ==
    \A n \in NodesOf(t) :
        \/ \A i \in 1..Len(n.Children) : n.Children[i].Leaf
        \/ \A i \in 1..Len(n.Children) :
              ~n.Children[i].Leaf /\ n.Children[i].Type = "G"

RECURSIVE WithoutGrandchildren(_)
WithoutGrandchildren(children) ==
    IF children = << >> THEN << >>
    ELSE <<[Head(children) EXCEPT !.Children = << >>]>>
             \o WithoutGrandchildren(Tail(children))

\* a node as a one-level listing shows it: its children without theirs
Shallow(n) == [n EXCEPT !.Children = WithoutGrandchildren(n.Children)]

\* the node a listing URL addresses (source-listing base + path[1:])
Addressed(t, conf, url) ==
    { n \in NodesOf(t) :
        /\ ~n.Leaf
        /\ ~SlicePanics(n.Path)
        /\ Sprintf2(conf.SourceURL, SliceFrom1(n.Path)) = url }

(***************************************************************************)
(* HTTP exchanges and response bodies.                                     *)
(***************************************************************************)
\* a response body: JSON or not, and the value of its "data" field
JsonBody(node) == [json |-> TRUE, hasData |-> TRUE, data |-> node]
JsonNoData == [json |-> TRUE, hasData |-> FALSE, data |-> ZeroAsset]
NotJson == [json |-> FALSE, hasData |-> FALSE, data |-> ZeroAsset]

\* the outcome of client.Do: a transport error, or a response
Response(status, body) == [failed |-> FALSE, status |-> status, body |-> body]
TransportFailure == [failed |-> TRUE, status |-> 0, body |-> NotJson]

\* Go error values ("none" is nil)
NoErr == [kind |-> "none", url |-> EmptyStr, status |-> 0]
\* the error client.Do or http.NewRequest returns
TransportErr(url) == [kind |-> "transport", url |-> url, status |-> 0]
\* fmt.Errorf("URL:[%s], StatusCode:[%d], [%s]", url, status, body)
StatusErr(url, status) == [kind |-> "status", url |-> url, status |-> status]
\* the error json.Unmarshal returns
DecodeErr == [kind |-> "decode", url |-> EmptyStr, status |-> 0]

StatusOK == 200
StatusCreated == 201
StatusForbidden == 403
StatusNotFound == 404

\* what the source answers to a listing GET when nothing goes wrong
ListingResponse(t, conf, deep, url) ==
    LET hit == Addressed(t, conf, url)
    IN  IF hit = {} THEN Response(StatusNotFound, NotJson)
        ELSE LET n == CHOOSE x \in hit : TRUE
             IN  Response(StatusOK, JsonBody(IF deep THEN n ELSE Shallow(n)))

\* the failing answers to a listing GET
ListingFaults ==
    {TransportFailure, Response(StatusNotFound, NotJson),
     Response(StatusOK, NotJson), Response(StatusOK, JsonNoData)}

\* httpDownload without the resp.StatusCode != http.StatusOK branch
httpDownload_IgnoresStatus(url, resp) ==
    IF resp.failed THEN [data |-> NotJson, err |-> TransportErr(url)]
    ELSE [data |-> resp.body, err |-> NoErr]

\* httpDownload(url), given what client.Do returned
httpDownload(url, resp) ==
    IF resp.failed THEN [data |-> NotJson, err |-> TransportErr(url)]
    ELSE IF resp.status # StatusOK
         THEN [data |-> NotJson, err |-> StatusErr(url, resp.status)]
         ELSE [data |-> resp.body, err |-> NoErr]

\* the unmarshaler with json.Unmarshal's error dropped
Unmarshal_DropsError(data) ==
    [asset |-> IF data.json /\ data.hasData THEN data.data ELSE ZeroAsset,
     err |-> NoErr]

\* json.Unmarshal(data, &dataObj) followed by dataObj.Asset
Unmarshal(data) ==
    IF ~data.json THEN [asset |-> ZeroAsset, err |-> DecodeErr]
    ELSE [asset |-> IF data.hasData THEN data.data ELSE ZeroAsset,
          err |-> NoErr]

(***************************************************************************)
(* State.                                                                  *)
(***************************************************************************)
VARIABLES
    tree,         \* the source repository
    deep,         \* whether a listing carries the whole subtree
    files,        \* what the two configuration files hold
    faults,       \* failing exchanges so far
    mainPc,       \* main: "load", "spawn", "seed", "drain"
    loadErr,      \* the error processConfigAndAuthFiles returned
    cf,           \* var cf configFile
    ci,           \* var ci confInfo (its configFile field)
    workers,      \* main's local workers
    crashed,      \* a goroutine panicked: the process is gone
    downloadCh, unmarshalCh, processCh, streamCh,
    dl, um, pr, st,   \* the goroutines of the four stages
    enq,          \* listing URLs ever sent on downloadCh, numbered per URL
    emitted,      \* jobs ever sent on streamCh, numbered per job value
    fetchHist, decodeHist, planHist, xferHist  \* finished handlings

vars == <<tree, deep, files, faults, mainPc, loadErr, cf, ci, workers, crashed,
          downloadCh, unmarshalCh, processCh, streamCh, dl, um, pr, st,
          enq, emitted, fetchHist, decodeHist, planHist, xferHist>>

envVars == <<tree, deep, files>>
confVars == <<loadErr, cf, ci>>
chanVars == <<downloadCh, unmarshalCh, processCh, streamCh>>
histVars == <<fetchHist, decodeHist, planHist, xferHist>>

WorkerIds == 1..MaxWorkers

\* the goroutines of unit w exist once main's loop has started them
Started(w) == w <= ci.Workers - workers

Running == ~crashed

\* number a message by how many equal ones were sent before it
Numbered(sent, v) == [v |-> v, n |-> Cardinality({m \in sent : m.v = v}) + 1]

DlIdle == [pc |-> "recv", msg |-> Numbered({}, EmptyStr),
           resp |-> TransportFailure, data |-> NotJson, err |-> NoErr]
UmIdle == [pc |-> "recv", data |-> NotJson, asset |-> ZeroAsset, err |-> NoErr]

PrIdle == [pc |-> "recv", asset |-> ZeroAsset, has |-> FALSE,
           planned |-> << >>, pending |-> << >>, sent |-> << >>]
NoExchange == [at |-> "none", status |-> 0]
NoJob == [sourceURL |-> EmptyStr, targetURL |-> EmptyStr, contentType |-> ""]
StIdle == [pc |-> "recv", msg |-> Numbered({}, NoJob), get |-> NoExchange,
           put |-> NoExchange, err |-> NoErr, reqs |-> << >>, open |-> 0,
           held |-> 0]

\* the process before main's first statement: nothing read, made or started
Startup ==
    /\ faults = 0
    /\ mainPc = "load"
    /\ loadErr = FALSE
    /\ cf = ZeroConfigFile
    /\ ci = ZeroConfigFile
    /\ workers = 0
    /\ crashed = FALSE
    /\ downloadCh = << >> /\ unmarshalCh = << >>
    /\ processCh = << >> /\ streamCh = << >>
    /\ dl = [w \in WorkerIds |-> DlIdle]
    /\ um = [w \in WorkerIds |-> UmIdle]
    /\ pr = [w \in WorkerIds |-> PrIdle]
    /\ st = [w \in WorkerIds |-> StIdle]
    /\ enq = {} /\ emitted = {}
    /\ fetchHist = {} /\ decodeHist = {} /\ planHist = {} /\ xferHist = {}

Init ==
    /\ tree \in Trees
    /\ deep \in BOOLEAN
    /\ files \in [conf : BOOLEAN, auth : BOOLEAN, Workers : 0..MaxWorkers]
    /\ Startup

(***************************************************************************)
(* main.                                                                   *)
(***************************************************************************)
\* processConfigAndAuthFiles: cf is set when the first file decodes, ci only
\* when both do; the returned error is what main receives
processConfigAndAuthFiles ==
    LET cfNew == IF files.conf THEN ParsedConfigFile(files.Workers)
                 ELSE ZeroConfigFile
        ok == files.conf /\ files.auth
    IN  /\ cf' = cfNew
        /\ ci' = IF ok THEN cfNew ELSE ci
        /\ loadErr' = ~ok

\* main up to the worker loop: the call's result is discarded, the channels
\* are made and workers := ci.configFile.Workers
MainLoad ==
    /\ mainPc = "load"
    /\ processConfigAndAuthFiles
    /\ workers' = ci'.Workers
    /\ mainPc' = "spawn"
    /\ UNCHANGED <<envVars, faults, crashed, chanVars, dl, um, pr, st,
                   enq, emitted, histVars>>

\* one iteration of the worker loop: four goroutines, or break
MainSpawn ==
    /\ mainPc = "spawn"
    /\ IF workers < 1
       THEN mainPc' = "seed" /\ workers' = workers
       ELSE mainPc' = "spawn" /\ workers' = workers - 1
    /\ UNCHANGED <<envVars, confVars, faults, crashed, chanVars, dl, um, pr,
                   st, enq, emitted, histVars>>

\* downloadCh <- ci.configFile.SourceURL
MainSeed ==
    /\ mainPc = "seed"
    /\ Len(downloadCh) < QueueCap
    /\ LET m == Numbered(enq, ci.SourceURL)
       IN  /\ downloadCh' = Append(downloadCh, m)
           /\ enq' = enq \cup {m}
    /\ mainPc' = "drain"
    /\ UNCHANGED <<envVars, confVars, faults, workers, crashed, unmarshalCh,
                   processCh, streamCh, dl, um, pr, st, emitted, histVars>>

(***************************************************************************)
(* downloader.                                                             *)
(***************************************************************************)
\* the answers the environment may give to a listing GET
ListingAnswers(url) ==
    {ListingResponse(tree, ci, deep, url)}
        \cup (IF faults < MaxFaults THEN ListingFaults ELSE {})

\* case url := <-downloadCh ; data, err := httpDownload(url)
DownloaderRecv(w) ==
    /\ Running /\ Started(w) /\ dl[w].pc = "recv"
    /\ downloadCh # << >>
    /\ \E resp \in ListingAnswers(Head(downloadCh).v) :
          LET m == Head(downloadCh)
              r == httpDownload(m.v, resp)
          IN  /\ dl' = [dl EXCEPT ![w] =
                          [pc |-> IF r.err # NoErr THEN "sendErr" ELSE "sendData",
                           msg |-> m, resp |-> resp, data |-> r.data,
                           err |-> r.err]]
              /\ faults' = IF resp = ListingResponse(tree, ci, deep, m.v)
                           THEN faults ELSE faults + 1
    /\ downloadCh' = Tail(downloadCh)
    /\ UNCHANGED <<envVars, confVars, mainPc, workers, crashed, unmarshalCh,
                   processCh, streamCh, um, pr, st, enq, emitted, histVars>>

\* unmarshalCh <- data
DownloaderSend(w) ==
    /\ Running /\ Started(w) /\ dl[w].pc = "sendData"
    /\ Len(unmarshalCh) < QueueCap
    /\ unmarshalCh' = Append(unmarshalCh, dl[w].data)
    /\ fetchHist' = fetchHist \cup
          {[msg |-> dl[w].msg, resp |-> dl[w].resp, errs |-> << >>,
            outs |-> <<dl[w].data>>]}
    /\ dl' = [dl EXCEPT ![w] = DlIdle]
    /\ UNCHANGED <<envVars, confVars, faults, mainPc, workers, crashed,
                   downloadCh, processCh, streamCh, um, pr, st, enq, emitted,
                   decodeHist, planHist, xferHist>>

(***************************************************************************)
(* unmarshaler.                                                            *)
(***************************************************************************)
\* case data := <-unmarshalCh ; err := json.Unmarshal(data, &dataObj)
UnmarshalerRecv(w) ==
    /\ Running /\ Started(w) /\ um[w].pc = "recv"
    /\ unmarshalCh # << >>
    /\ LET data == Head(unmarshalCh)
           r == Unmarshal(data)
       IN  um' = [um EXCEPT ![w] =
                    [pc |-> IF r.err # NoErr THEN "sendErr" ELSE "sendAsset",
                     data |-> data, asset |-> r.asset, err |-> r.err]]
    /\ unmarshalCh' = Tail(unmarshalCh)
    /\ UNCHANGED <<envVars, confVars, faults, mainPc, workers, crashed,
                   downloadCh, processCh, streamCh, dl, pr, st, enq, emitted,
                   histVars>>

\* processCh <- dataObj.Asset
UnmarshalerSend(w) ==
    /\ Running /\ Started(w) /\ um[w].pc = "sendAsset"
    /\ Len(processCh) < QueueCap
    /\ processCh' = Append(processCh, um[w].asset)
    /\ decodeHist' = decodeHist \cup
          {[data |-> um[w].data, errs |-> << >>, outs |-> <<um[w].asset>>]}
    /\ um' = [um EXCEPT ![w] = UmIdle]
    /\ UNCHANGED <<envVars, confVars, faults, mainPc, workers, crashed,
                   downloadCh, unmarshalCh, streamCh, dl, pr, st, enq, emitted,
                   fetchHist, planHist, xferHist>>

(***************************************************************************)
(* processor.                                                              *)
(***************************************************************************)
\* the handling of one asset is over: back to the select
ProcessorDone(w, p) ==
    /\ pr' = [pr EXCEPT ![w] = PrIdle]
    /\ planHist' = planHist \cup
          {[asset |-> p.asset, has |-> p.has, planned |-> p.planned,
            sent |-> p.sent]}

\* the branch taken on the other outcome of hasArtifacts
Plan_Inverted(asset) ==
    LET has == hasArtifacts(asset)
        r == IF ~has THEN getArtifacts(asset) ELSE getGroups(asset)
    IN  [has |-> has, panic |-> r.panic, planned |-> r.val,
         pc |-> IF ~has THEN "sendStream" ELSE "sendDownload"]

\* if hasArtifacts(&asset) { getArtifacts } else { getGroups }: what the
\* range loop that follows will send, and on which channel
Plan(asset) ==
    LET has == hasArtifacts(asset)
        r == IF has THEN getArtifacts(asset) ELSE getGroups(asset)
    IN  [has |-> has, panic |-> r.panic, planned |-> r.val,
         pc |-> IF has THEN "sendStream" ELSE "sendDownload"]

\* case asset := <-processCh, up to the first channel send
ProcessorRecv(w) ==
    /\ Running /\ Started(w) /\ pr[w].pc = "recv"
    /\ processCh # << >>
    /\ processCh' = Tail(processCh)
    /\ LET asset == Head(processCh)
           r == Plan(asset)
           p == [pc |-> r.pc, asset |-> asset, has |-> r.has,
                 planned |-> r.planned, pending |-> r.planned,
                 sent |-> << >>]
       IN  IF r.panic
           THEN /\ crashed' = TRUE
                /\ pr' = [pr EXCEPT ![w] = p]
                /\ planHist' = planHist
           ELSE /\ crashed' = FALSE
                /\ IF r.planned = << >> THEN ProcessorDone(w, p)
                   ELSE /\ pr' = [pr EXCEPT ![w] = p]
                        /\ planHist' = planHist
    /\ UNCHANGED <<envVars, confVars, faults, mainPc, workers, downloadCh,
                   unmarshalCh, streamCh, dl, um, st, enq, emitted,
                   fetchHist, decodeHist, xferHist>>

\* streamCh <- assetToStream, for the next artifact of the range loop
ProcessorSendStream(w) ==
    /\ Running /\ Started(w) /\ pr[w].pc = "sendStream"
    /\ Len(streamCh) < QueueCap
    /\ LET m == Numbered(emitted, AssetToStream(ci, Head(pr[w].pending)))
           p == [pr[w] EXCEPT !.pending = Tail(@), !.sent = Append(@, m)]
       IN  /\ streamCh' = Append(streamCh, m)
           /\ emitted' = emitted \cup {m}
           /\ IF p.pending = << >> THEN ProcessorDone(w, p)
              ELSE pr' = [pr EXCEPT ![w] = p] /\ planHist' = planHist
    /\ UNCHANGED <<envVars, confVars, faults, mainPc, workers, crashed,
                   downloadCh, unmarshalCh, processCh, dl, um, st, enq,
                   fetchHist, decodeHist, xferHist>>

\* downloadCh <- rootURL, for the next group of the range loop
ProcessorSendDownload(w) ==
    /\ Running /\ Started(w) /\ pr[w].pc = "sendDownload"
    /\ Len(downloadCh) < QueueCap
    /\ LET m == Numbered(enq, Sprintf2(ci.SourceURL, Head(pr[w].pending)))
           p == [pr[w] EXCEPT !.pending = Tail(@), !.sent = Append(@, m)]
       IN  /\ downloadCh' = Append(downloadCh, m)
           /\ enq' = enq \cup {m}
           /\ IF p.pending = << >> THEN ProcessorDone(w, p)
              ELSE pr' = [pr EXCEPT ![w] = p] /\ planHist' = planHist
    /\ UNCHANGED <<envVars, confVars, faults, mainPc, workers, crashed,
                   unmarshalCh, processCh, streamCh, dl, um, st, emitted,
                   fetchHist, decodeHist, xferHist>>

(***************************************************************************)
(* streamer.                                                               *)
(***************************************************************************)
\* one HTTP exchange of the streamer: where it ended, and the status
RequestFailed == [at |-> "newRequest", status |-> 0]
DoFailed == [at |-> "do", status |-> 0]
Answered(status) == [at |-> "response", status |-> status]

\* a request handed to client.Do
Request(method, url) == [method |-> method, url |-> url]

GetFaults == {RequestFailed, DoFailed, Answered(StatusNotFound)}
PutFaults == {RequestFailed, DoFailed, Answered(StatusForbidden)}

\* httpUpload comparing the status with http.StatusOK, as httpDownload does
httpUpload_ExpectsOK(url, put) ==
    IF put.at = "newRequest"
    THEN [err |-> TransportErr(url), bodyClosed |-> FALSE, respOpen |-> 0,
          reqs |-> << >>]
    ELSE IF put.at = "do"
    THEN [err |-> TransportErr(url), bodyClosed |-> TRUE, respOpen |-> 0,
          reqs |-> <<Request("PUT", url)>>]
    ELSE IF put.status # StatusOK
    THEN [err |-> StatusErr(url, put.status), bodyClosed |-> TRUE,
          respOpen |-> 0, reqs |-> <<Request("PUT", url)>>]
    ELSE [err |-> NoErr, bodyClosed |-> TRUE, respOpen |-> 0,
          reqs |-> <<Request("PUT", url)>>]

\* httpUpload(url, body, contentType), given how the PUT goes.  bodyClosed:
\* client.Do hands the request body to the Transport, which closes it;
\* respOpen: response bodies of the PUT still open when the call returns
\* (the deferred Close runs at the return)
httpUpload(url, put) ==
    IF put.at = "newRequest"
    THEN [err |-> TransportErr(url), bodyClosed |-> FALSE, respOpen |-> 0,
          reqs |-> << >>]
    ELSE IF put.at = "do"
    THEN [err |-> TransportErr(url), bodyClosed |-> TRUE, respOpen |-> 0,
          reqs |-> <<Request("PUT", url)>>]
    ELSE IF put.status # StatusCreated
    THEN [err |-> StatusErr(url, put.status), bodyClosed |-> TRUE,
          respOpen |-> 0, reqs |-> <<Request("PUT", url)>>]
    ELSE [err |-> NoErr, bodyClosed |-> TRUE, respOpen |-> 0,
          reqs |-> <<Request("PUT", url)>>]

\* the body of streamer's select case for one job.  The GET status is not
\* looked at; defer resp.Body.Close() waits for streamer to return, which
\* it never does, so the GET body is closed only if the PUT's Transport
\* closes it
StreamOne(a, get, put) ==
    IF get.at # "response"
    THEN [put |-> NoExchange, err |-> TransportErr(a.sourceURL), open |-> 0,
          reqs |-> IF get.at = "do" THEN <<Request("GET", a.sourceURL)>>
                   ELSE << >>]
    ELSE LET up == httpUpload(a.targetURL, put)
         IN  [put |-> put, err |-> up.err,
              open |-> (IF up.bodyClosed THEN 0 ELSE 1) + up.respOpen,
              reqs |-> <<Request("GET", a.sourceURL)>> \o up.reqs]

\* the pairs of exchanges the environment may give to one job
JobAnswers ==
    LET left == MaxFaults - faults
        gets == {Answered(StatusOK)} \cup (IF left >= 1 THEN GetFaults ELSE {})
        puts == {Answered(StatusCreated)} \cup (IF left >= 1 THEN PutFaults ELSE {})
        Cost(g, p) == (IF g = Answered(StatusOK) THEN 0 ELSE 1)
                        + (IF p = Answered(StatusCreated) THEN 0 ELSE 1)
    IN  { x \in gets \X puts :
            /\ Cost(x[1], x[2]) <= left
            /\ x[1].at # "response" => x[2] = Answered(StatusCreated) }

\* streamer's select case for the job at the head of streamCh, which is
\* left holding rest
StreamerTake(w, rest) ==
    /\ Running /\ Started(w) /\ st[w].pc = "recv"
    /\ streamCh # << >>
    /\ streamCh' = rest
    /\ \E x \in JobAnswers :
          LET m == Head(streamCh)
              r == StreamOne(m.v, x[1], x[2])
              s == [pc |-> "sendErr", msg |-> m, get |-> x[1], put |-> r.put,
                    err |-> r.err, reqs |-> r.reqs, open |-> r.open,
                    held |-> st[w].held + r.open]
          IN  /\ faults' = faults + (IF x[1] = Answered(StatusOK) THEN 0 ELSE 1)
                             + (IF x[2] = Answered(StatusCreated) THEN 0 ELSE 1)
              /\ IF r.err # NoErr
                 THEN st' = [st EXCEPT ![w] = s] /\ xferHist' = xferHist
                 ELSE /\ st' = [st EXCEPT ![w] = [StIdle EXCEPT !.held = s.held]]
                      /\ xferHist' = xferHist \cup
                            {[msg |-> m, get |-> s.get, put |-> s.put,
                              reqs |-> s.reqs, errs |-> << >>,
                              open |-> s.open]}
    /\ UNCHANGED <<envVars, confVars, mainPc, workers, crashed, downloadCh,
                   unmarshalCh, processCh, dl, um, pr, enq, emitted,
                   fetchHist, decodeHist, planHist>>

\* a receive that leaves the job on the channel
StreamerRecv_Peek(w) == StreamerTake(w, streamCh)

\* case assetToStream := <-streamCh, up to the send on errCh or the end
StreamerRecv(w) == StreamerTake(w, Tail(streamCh))

(***************************************************************************)
(* main's loop on errCh.  errCh is unbuffered: a send and main's receive   *)
(* are one step, after which the sender goes back to its select.           *)
(***************************************************************************)
\* errCh <- err in downloader, received by main
ErrFromDownloader(w) ==
    /\ Started(w) /\ dl[w].pc = "sendErr"
    /\ fetchHist' = fetchHist \cup
          {[msg |-> dl[w].msg, resp |-> dl[w].resp, errs |-> <<dl[w].err>>,
            outs |-> << >>]}
    /\ dl' = [dl EXCEPT ![w] = DlIdle]
    /\ UNCHANGED <<um, st, decodeHist, xferHist>>

\* errCh <- err in unmarshaler, received by main
ErrFromUnmarshaler(w) ==
    /\ Started(w) /\ um[w].pc = "sendErr"
    /\ decodeHist' = decodeHist \cup
          {[data |-> um[w].data, errs |-> <<um[w].err>>, outs |-> << >>]}
    /\ um' = [um EXCEPT ![w] = UmIdle]
    /\ UNCHANGED <<dl, st, fetchHist, xferHist>>

\* errCh <- err in streamer, received by main
ErrFromStreamer(w) ==
    /\ Started(w) /\ st[w].pc = "sendErr"
    /\ xferHist' = xferHist \cup
          {[msg |-> st[w].msg, get |-> st[w].get, put |-> st[w].put,
            reqs |-> st[w].reqs, errs |-> <<st[w].err>>,
            open |-> st[w].open]}
    /\ st' = [st EXCEPT ![w] = [StIdle EXCEPT !.held = st[w].held]]
    /\ UNCHANGED <<dl, um, fetchHist, decodeHist>>

\* errors main has printed so far
Printed ==
    { h.errs : h \in { x \in fetchHist : x.errs # << >> } }
        \cup { h.errs : h \in { x \in decodeHist : x.errs # << >> } }
        \cup { h.errs : h \in { x \in xferHist : x.errs # << >> } }

\* a single receive from errCh instead of the for/select loop
MainRecvErr_Once ==
    /\ Running /\ mainPc = "drain"
    /\ Printed = {}
    /\ \E w \in WorkerIds :
          \/ ErrFromDownloader(w)
          \/ ErrFromUnmarshaler(w)
          \/ ErrFromStreamer(w)
    /\ UNCHANGED <<envVars, confVars, faults, mainPc, workers, crashed,
                   chanVars, pr, enq, emitted, planHist>>

\* case err := <-errCh in main's for/select
MainRecvErr ==
    /\ Running /\ mainPc = "drain"
    /\ \E w \in WorkerIds :
          \/ ErrFromDownloader(w)
          \/ ErrFromUnmarshaler(w)
          \/ ErrFromStreamer(w)
    /\ UNCHANGED <<envVars, confVars, faults, mainPc, workers, crashed,
                   chanVars, pr, enq, emitted, planHist>>

(***************************************************************************)
(* Specifications.                                                         *)
(***************************************************************************)
Next ==
    \/ MainLoad
    \/ MainSpawn
    \/ MainSeed
    \/ MainRecvErr
    \/ \E w \in WorkerIds :
          \/ DownloaderRecv(w)
          \/ DownloaderSend(w)
          \/ UnmarshalerRecv(w)
          \/ UnmarshalerSend(w)
          \/ ProcessorRecv(w)
          \/ ProcessorSendStream(w)
          \/ ProcessorSendDownload(w)
          \/ StreamerRecv(w)

Spec == Init /\ [][Next]_vars

\* main's for/select is scheduled whenever a sender waits on errCh
FairSpec == Spec /\ WF_vars(MainRecvErr)

\* the whole pipeline on the wide tree, with one worker unit configured
WideInit ==
    /\ tree = TreeWide
    /\ deep \in BOOLEAN
    /\ files = [conf |-> TRUE, auth |-> TRUE, Workers |-> 1]
    /\ Startup

WideSpec == WideInit /\ [][Next]_vars

\* one worker unit, the seed fetched with 200 and decoded: the root listing
\* is on processCh
Decoded ==
    LET seed == Numbered({}, ConfSourceURL)
    IN  /\ deep = TRUE
        /\ files = [conf |-> TRUE, auth |-> TRUE, Workers |-> 1]
        /\ faults = 0
        /\ mainPc = "drain"
        /\ loadErr = FALSE
        /\ cf = ParsedConfigFile(1)
        /\ ci = ParsedConfigFile(1)
        /\ workers = 0
        /\ crashed = FALSE
        /\ downloadCh = << >> /\ unmarshalCh = << >>
        /\ processCh = << tree >> /\ streamCh = << >>
        /\ dl = [w \in WorkerIds |-> DlIdle]
        /\ um = [w \in WorkerIds |-> UmIdle]
        /\ pr = [w \in WorkerIds |-> PrIdle]
        /\ st = [w \in WorkerIds |-> StIdle]
        /\ enq = {seed} /\ emitted = {}
        /\ fetchHist = {[msg |-> seed,
                         resp |-> Response(StatusOK, JsonBody(tree)),
                         errs |-> << >>, outs |-> <<JsonBody(tree)>>]}
        /\ decodeHist = {[data |-> JsonBody(tree), errs |-> << >>,
                          outs |-> <<tree>>]}
        /\ planHist = {} /\ xferHist = {}

\* the processor alone, on any root listing the source may serve
PlanInit == tree \in Listings /\ Decoded

PlanNext ==
    \E w \in WorkerIds :
       \/ ProcessorRecv(w)
       \/ ProcessorSendStream(w)
       \/ ProcessorSendDownload(w)

PlanSpec == PlanInit /\ [][PlanNext]_vars

(***************************************************************************)
(* Properties.                                                             *)
(***************************************************************************)
Leaves(t) == { n \in NodesOf(t) : n.Leaf }

\* a string without its last three characters (the extension token)
Stem(p) == SubSeq(p, 1, Len(p) - 3)

\* the jobs sent on streamCh for leaf l: the download base followed by the
\* leaf's path without the leading separator, up to the extension
JobsOf(l) ==
    IF Len(l.Path) < 4 THEN {}
    ELSE LET src == ConfSourceDownloadURL \o SubSeq(l.Path, 2, Len(l.Path))
         IN  { m \in emitted : /\ Len(m.v.sourceURL) = Len(src)
                               /\ Stem(m.v.sourceURL) = Stem(src) }

JobsDue(l) == IF l.PomUri # EmptyStr THEN 2 ELSE 1

\* every goroutine waits in its select, nothing is queued, main drains errCh
Quiescent ==
    /\ Running /\ mainPc = "drain"
    /\ downloadCh = << >> /\ unmarshalCh = << >>
    /\ processCh = << >> /\ streamCh = << >>
    /\ \A w \in WorkerIds :
          Started(w) => /\ dl[w].pc = "recv" /\ um[w].pc = "recv"
                        /\ pr[w].pc = "recv" /\ st[w].pc = "recv"

C2_FailedDownloadSkipsUpload ==
    \A h \in xferHist :
        (h.get.at = "response" /\ h.get.status # StatusOK) =>
            /\ Len(h.errs) = 1
            /\ \A i \in 1..Len(h.reqs) : h.reqs[i].method # "PUT"

\* C3: no message stops the process: no goroutine panics while handling one
C3_NoMessageHaltsThePipeline == ~crashed

\* C4: a listing URL answered with a status other than 200 yields exactly one
\* error, carrying the URL and the status, and no body on unmarshalCh; one
\* answered with 200 yields its body once and no error; no URL is sent on
\* downloadCh a second time and none is fetched twice
C4_FetcherReportsOrForwards ==
    /\ \A h \in fetchHist :
          ~h.resp.failed =>
              IF h.resp.status # StatusOK
              THEN /\ h.errs = <<StatusErr(h.msg.v, h.resp.status)>>
                   /\ h.outs = << >>
              ELSE /\ h.errs = << >>
                   /\ h.outs = <<h.resp.body>>
    /\ \A m \in enq : m.n = 1
    /\ \A h1, h2 \in fetchHist : h1.msg = h2.msg => h1 = h2
    /\ \A h \in fetchHist : \A i \in 1..Len(downloadCh) : downloadCh[i] # h.msg

C4_Witness ==
    /\ \E h \in fetchHist : ~h.resp.failed /\ h.resp.status = StatusNotFound
    /\ \E h \in fetchHist : ~h.resp.failed /\ h.resp.status = StatusOK

\* C5: a malformed body yields exactly one error and no asset on processCh; a
\* body that decodes yields exactly one asset, the value of its data field,
\* and no error
C5_DecoderReportsOrForwards ==
    \A h \in decodeHist :
        IF ~h.data.json
        THEN h.errs = <<DecodeErr>> /\ h.outs = << >>
        ELSE /\ h.errs = << >>
             /\ Len(h.outs) = 1
             /\ h.data.hasData => h.outs[1] = h.data.data

C5_Witness ==
    /\ \E h \in decodeHist : ~h.data.json
    /\ \E h \in decodeHist : h.data.json /\ h.data.hasData
                              /\ h.outs[1].Children # << >>

\* C6: a PUT answered with a status other than 201 yields exactly one error,
\* carrying the target URL and the status, and the job issues exactly one
\* request to the target; a PUT answered with 201 yields no error
C6_UploadStatusReported ==
    \A h \in xferHist :
        h.put.at = "response" =>
            /\ IF h.put.status # StatusCreated
               THEN h.errs = <<StatusErr(h.msg.v.targetURL, h.put.status)>>
               ELSE h.errs = << >>
            /\ Cardinality({ i \in 1..Len(h.reqs) :
                               h.reqs[i].url = h.msg.v.targetURL }) = 1
            /\ \A i \in 1..Len(h.reqs) : h.reqs[i].method \in {"GET", "PUT"}

C6_Witness ==
    /\ \E h \in xferHist : h.put.at = "response"
                            /\ h.put.status = StatusForbidden
    /\ \E h \in xferHist : h.put.at = "response"
                            /\ h.put.status = StatusCreated

\* C7: a finished job leaves no response body open, so a streamer waiting
\* for its next job holds none
C7_ResponseBodiesReleased ==
    /\ \A h \in xferHist : h.open = 0
    /\ \A w \in WorkerIds : st[w].pc = "recv" => st[w].held = 0

\* C8: when loading the configuration or the credentials fails, no worker is
\* started, nothing is sent on downloadCh and main never reaches its loop
C8_ConfigFailureIsFatal ==
    loadErr =>
        /\ \A w \in WorkerIds : ~Started(w)
        /\ enq = {} /\ downloadCh = << >>
        /\ mainPc # "drain"

\* a goroutine of the running process waits in errCh <- err
BlockedDownloader(w) == Running /\ Started(w) /\ dl[w].pc = "sendErr"
BlockedUnmarshaler(w) == Running /\ Started(w) /\ um[w].pc = "sendErr"
BlockedStreamer(w) == Running /\ Started(w) /\ st[w].pc = "sendErr"

\* C9: with main's loop scheduled fairly, every goroutine waiting to send on
\* errCh is eventually released
C9_ErrorSendersReleased ==
    \A w \in WorkerIds :
        /\ BlockedDownloader(w) ~> ~BlockedDownloader(w)
        /\ BlockedUnmarshaler(w) ~> ~BlockedUnmarshaler(w)
        /\ BlockedStreamer(w) ~> ~BlockedStreamer(w)

\* errors reported concurrently, with work still queued
C9_Witness ==
    /\ BlockedDownloader(1) /\ BlockedStreamer(2)
    /\ streamCh # << >>

\* the number of places job m is in: queued on streamCh, held by a streamer
\* that has not finished it, or finished
Holders(m) ==
    Cardinality({ i \in 1..Len(streamCh) : streamCh[i] = m })
      + Cardinality({ w \in WorkerIds : st[w].pc = "sendErr" /\ st[w].msg = m })
      + Cardinality({ h \in xferHist : h.msg = m })

\* C10: every job sent on streamCh is queued or with exactly one streamer,
\* never both and never with two
C10_JobDequeuedExactlyOnce ==
    /\ \A m \in emitted : Holders(m) = 1
    /\ \A h \in xferHist : h.msg \in emitted

C10_Witness ==
    /\ ci.Workers = 2
    /\ st[1].pc = "sendErr" /\ st[2].pc = "sendErr"
    /\ st[1].msg # st[2].msg
    /\ \E h \in xferHist : TRUE

(***************************************************************************)
(* The processor's plan for one node.                                      *)
(***************************************************************************)
\* the two jobs of the scenario tree, written out
ScenarioJar ==
    [sourceURL |-> <<"D", "r", "/", "l", ".", "j", "a", "r">>,
     targetURL |-> <<"T", "r", "/", "l", ".", "j", "a", "r">>,
     contentType |-> "application/java-archive"]
ScenarioPom ==
    [sourceURL |-> <<"D", "r", "/", "l", ".", "p", "o", "m">>,
     targetURL |-> <<"T", "r", "/", "l", ".", "p", "o", "m">>,
     contentType |-> "application/xml"]
ScenarioJobs == { [v |-> ScenarioJar, n |-> 1], [v |-> ScenarioPom, n |-> 1] }

\* C11: on the tree root -> one group -> one leaf with a non-empty pomUri,
\* the only jobs ever sent on streamCh are the jar job and the pom job, each
\* once, with the target base and the download base in front of the same
\* path; when every exchange succeeds and the traversal has ended, both
\* have been sent
C11_ScenarioYieldsTwoJobs ==
    tree = TreeScenario =>
        /\ emitted \subseteq ScenarioJobs
        /\ (Quiescent /\ faults = 0 /\ ci.Workers >= 1) =>
               emitted = ScenarioJobs

\* the scenario has run to its end, listing by listing
C11_Witness ==
    /\ tree = TreeScenario /\ ~deep /\ faults = 0
    /\ Quiescent /\ ci.Workers >= 1
    /\ Cardinality(emitted) = 2
    /\ Cardinality(planHist) = 2

\* the path of a job: its targetURL after the target base
JobPath(job) ==
    SubSeq(job.targetURL, Len(ConfTargetURL) + 1, Len(job.targetURL))

EndsInDotPom(p) ==
    /\ Len(p) >= 4
    /\ p[Len(p) - 3] = "." /\ p[Len(p) - 2] = "p"
    /\ p[Len(p) - 1] = "o" /\ p[Len(p)] = "m"

\* C12: every job sent on streamCh whose path ends in .pom carries
\* application/xml, and every other job carries application/java-archive
C12_ContentTypeFollowsSuffix ==
    \A m \in emitted :
        m.v.contentType = IF EndsInDotPom(JobPath(m.v))
                          THEN "application/xml"
                          ELSE "application/java-archive"

\* one listing has produced a job of each type
C12_Witness ==
    /\ \E m \in emitted : m.v.contentType = "application/xml"
    /\ \E m \in emitted : m.v.contentType = "application/java-archive"

\* C13: for a node without children hasArtifacts is false, getGroups returns
\* nothing and the processor sends nothing on downloadCh or streamCh: the
\* handling is over as soon as the node is received
C13_ChildlessNodeYieldsNothing ==
    /\ \A h \in planHist :
          h.asset.Children = << >> =>
              /\ h.has = FALSE
              /\ h.planned = << >>
              /\ h.sent = << >>
    /\ \A w \in WorkerIds :
          pr[w].pc # "recv" => pr[w].asset.Children # << >>

\* the listing of an empty group has been handled
C13_Witness ==
    \E h \in planHist : h.asset.Children = << >> /\ h.asset.Path = P_r

\* the handlings of PlanSpec's one node: in progress or finished
Handlings ==
    { [asset |-> pr[w].asset, has |-> pr[w].has, planned |-> pr[w].planned,
       sent |-> pr[w].sent] : w \in { x \in WorkerIds : pr[x].pc # "recv" } }
        \cup planHist

\* C14: for one node the processor sends jobs on streamCh only or URLs on
\* downloadCh only, never both: when hasArtifacts is true nothing is added
\* to downloadCh, when it is false nothing is added to streamCh
C14_JobsOrFetchesNeverBoth ==
    LET seed == Numbered({}, ConfSourceURL)
    IN  /\ emitted = {} \/ enq = {seed}
        /\ \A h \in Handlings :
              IF h.has THEN enq = {seed} /\ downloadCh = << >>
              ELSE emitted = {} /\ streamCh = << >>

\* a node with a leaf first and a group second has been handled: jobs only
C14_Witness ==
    /\ Len(tree.Children) = 2
    /\ tree.Children[1].Leaf
    /\ tree.Children[2] = Group(P_a, << Leaf(P_a_y, EmptyStr) >>)
    /\ planHist # {}
    /\ emitted # {}

\* the first child of n, the first child of that child, and so on down to a
\* node without children
RECURSIVE FirstChain(_)
FirstChain(n) ==
    IF n.Children = << >> THEN << >>
    ELSE << n.Children[1] >> \o FirstChain(n.Children[1])

\* C15: hasArtifacts of a node is true exactly when some node on its chain
\* of first children is a leaf; no other child enters the result
C15_HasArtifactsProbesFirstChildOnly ==
    \A h \in Handlings :
        h.has = (\E i \in 1..Len(FirstChain(h.asset)) :
                    FirstChain(h.asset)[i].Leaf)

\* the probe has said no although the second child is a leaf, and the
\* node's groups were sent on
C15_Witness ==
    /\ \E h \in planHist : ~h.has
    /\ Len(tree.Children) = 2
    /\ tree.Children[2].Leaf
    /\ enq # {Numbered({}, ConfSourceURL)}

\* the positions of the direct children of type G, and the k-th of them
GroupPositions(asset) ==
    { i \in 1..Len(asset.Children) : asset.Children[i].Type = "G" }
KthGroup(asset, k) ==
    CHOOSE i \in GroupPositions(asset) :
        Cardinality({ j \in GroupPositions(asset) : j <= i }) = k

\* a path without its leading separator
WithoutSeparator(p) ==
    IF p # << >> /\ p[1] = "/" THEN SubSeq(p, 2, Len(p)) ELSE p

JarOnlyAsExtension(q) ==
    /\ Len(q) >= 4
    /\ { i \in 1..(Len(q) - 2) :
            q[i] = "j" /\ q[i + 1] = "a" /\ q[i + 2] = "r" } = {Len(q) - 2}
    /\ q[Len(q) - 3] = "."

\* the number of paths collected for the children before the i-th, when
\* every child is a leaf
RECURSIVE PathsBefore(_, _)
PathsBefore(cs, i) ==
    IF i = 1 THEN 0
    ELSE PathsBefore(cs, i - 1) + (IF cs[i - 1].PomUri # << >> THEN 2 ELSE 1)

\* the handlings of nodes all of whose children are leaves with a path
LeafListings ==
    { h \in Handlings :
        /\ h.has
        /\ \A i \in 1..Len(h.asset.Children) :
              h.asset.Children[i].Leaf /\ h.asset.Children[i].Path # << >> }

\* C17: for a leaf with a non-empty pomUri whose path, the leading separator
\* dropped, holds jar exactly once, as its extension, the path collected
\* right after the artifact path is the artifact path with jar replaced by
\* pom: it ends in .pom, is as long, and agrees on all but the last three
\* characters
C17_CompanionReplacesExtension ==
    \A h \in LeafListings :
      \A i \in 1..Len(h.asset.Children) :
        LET a == h.asset.Children[i]
            art == WithoutSeparator(a.Path)
            at == PathsBefore(h.asset.Children, i)
        IN  (a.PomUri # << >> /\ JarOnlyAsExtension(art)) =>
              /\ Len(h.planned) >= at + 2
              /\ h.planned[at + 1] = art
              /\ h.planned[at + 2] =
                    SubSeq(art, 1, Len(art) - 3) \o <<"p", "o", "m">>
              /\ EndsInDotPom(h.planned[at + 2])
              /\ Len(h.planned[at + 2]) = Len(art)
              /\ \A k \in 1..(Len(art) - 3) : h.planned[at + 2][k] = art[k]

\* a .jar leaf with a companion, listed after a leaf of its own, was planned
C17_Witness ==
    /\ Len(tree.Children) = 2
    /\ tree.Children[2] = Leaf(P_a_x, SomePom)
    /\ \E h \in LeafListings : Len(h.planned) >= 3 /\ h.sent # << >>

\* the two jobs sent for the i-th child of a listing of leaves differ in
\* targetURL and the second is typed application/xml
CompanionJobDistinct(h, i) ==
    LET at == PathsBefore(h.asset.Children, i)
    IN  Len(h.sent) >= at + 2 =>
          /\ h.sent[at + 2].v.targetURL # h.sent[at + 1].v.targetURL
          /\ h.sent[at + 2].v.contentType = "application/xml"

\* C19: for every leaf with a non-empty pomUri, whatever its
\* path, the companion job's targetURL differs from the artifact job's and
\* the companion job is typed application/xml
C19_CompanionJobDistinctForEveryPath ==
    \A h \in LeafListings :
      \A i \in 1..Len(h.asset.Children) :
        h.asset.Children[i].PomUri # << >> => CompanionJobDistinct(h, i)

\* every started processor waits to send on the full downloadCh, every
\* downloader on the full unmarshalCh, every unmarshaler on the full
\* processCh
AllBlockedOnFullQueues ==
    /\ Running /\ mainPc = "drain" /\ ci.Workers >= 1
    /\ Len(downloadCh) = QueueCap
    /\ Len(unmarshalCh) = QueueCap
    /\ Len(processCh) = QueueCap
    /\ \A w \in WorkerIds :
          Started(w) => /\ pr[w].pc = "sendDownload"
                        /\ dl[w].pc = "sendData"
                        /\ um[w].pc = "sendAsset"

\* C18: no reachable state has URLs, bodies and nodes queued while every
\* processor, downloader and unmarshaler is blocked sending to a full queue
C18_ClosedLoopNeverDeadlocks == ~AllBlockedOnFullQueues

=============================================================================
